---------------------------- MODULE Spec2Model ----------------------------
(***************************************************************************)
(* The TTL-cached time-bucket aggregation engine of the event              *)
(* visualization server: KustoHandler (src/backend/kusto.py) and the       *)
(* analytics routes over it (src/backend/apis/events.py).                  *)
(*                                                                         *)
(* Python values are held as follows.                                      *)
(*   None                 the record [none |-> TRUE]                       *)
(*   a dict               a record, one field per key                      *)
(*   a list               a sequence                                       *)
(*   datetime.now()       [secs |-> n], n whole seconds since the handler  *)
(*                        was constructed (clock readings are only ever    *)
(*                        subtracted from one another)                     *)
(*   a row's timestamp    [year, month, day, hour, minute, second,         *)
(*                        microsecond] (row timestamps are only compared   *)
(*                        with parsed dates and formatted)                 *)
(*   a formatted string   a record naming the format and the fields it     *)
(*                        prints                                           *)
(***************************************************************************)
EXTENDS Integers, Sequences, FiniteSets, TLC

VARIABLES
    now,                 \* the wall clock, in whole seconds
    data,                \* KustoHandler.data: the line slot's snapshot
    bar_data,            \* KustoHandler.bar_data: the bar slot's snapshot
    last_load_time,      \* KustoHandler.last_load_time
    bar_last_load_time,  \* KustoHandler.bar_last_load_time
    test_data,           \* module global test_data: the line data source
    bar_test_data,       \* module global bar_test_data: the bar data source
    op,                  \* history: the step taken last, an operation with its arguments
    ret,                 \* history: what that operation returned or raised
    loads,               \* history: the data-source loads that operation performed
    pre,                 \* history: the handler's fields when that step began
    cleared,             \* history: per slot, the load time that clear_cache last erased
    threads,             \* per thread, the call it is in: method, statement, locals
    writer               \* history: per field of the handler, the call that assigned it last

vars == <<now, data, bar_data, last_load_time, bar_last_load_time,
          test_data, bar_test_data, op, ret, loads, pre, cleared,
          threads, writer>>

----------------------------------------------------------------------------
(* Bounds of the model *)

\* the clock is read at construction and at instants within one second of a
\* multiple of the TTL, up to MaxPeriods TTLs after construction
MaxPeriods == 1

----------------------------------------------------------------------------
(* Python values *)

None == [none |-> TRUE]

\* a Python string that may also be None (start_date, end_date)
Str(s) == [text |-> s]

\* bool(v) for the values the code tests: None, a dict, a list, a string
Truthy(v) == v # None /\ v # <<>> /\ v # Str("")

Return(v) == [outcome |-> "return", value |-> v]

Raise(e) == [outcome |-> "raise", exc |-> e]

\* self.cache_duration = 600
cache_duration == 600

\* datetime.datetime.now()
datetime_now == [secs |-> now]

\* (a - b).total_seconds()
total_seconds(a, b) == a.secs - b.secs

\* the instants at which the clock is read
Instants ==
    {0} \cup { k * cache_duration + j : k \in 1 .. MaxPeriods, j \in {-1, 0, 1} }

----------------------------------------------------------------------------
(* datetime: the calendar *)

Dt(y, m, d, H, M, S, us) ==
    [year |-> y, month |-> m, day |-> d,
     hour |-> H, minute |-> M, second |-> S, microsecond |-> us]

is_leap(y) == y % 4 = 0 /\ (y % 100 # 0 \/ y % 400 = 0)

days_in_month(y, m) ==
    IF m = 2 THEN (IF is_leap(y) THEN 29 ELSE 28)
    ELSE IF m \in {4, 6, 9, 11} THEN 30 ELSE 31

RECURSIVE days_before_month(_, _)
days_before_month(y, m) ==
    IF m = 1 THEN 0 ELSE days_before_month(y, m - 1) + days_in_month(y, m - 1)

days_before_year(y) ==
    (y - 1) * 365 + (y - 1) \div 4 - (y - 1) \div 100 + (y - 1) \div 400

\* date.toordinal()
toordinal(ts) ==
    days_before_year(ts.year) + days_before_month(ts.year, ts.month) + ts.day

\* weekday counted from Sunday: isoweekday() % 7
weekday_from_sunday(ts) == toordinal(ts) % 7

\* date.weekday(): Monday is 0
weekday(ts) == (toordinal(ts) + 6) % 7

\* ts - datetime.timedelta(days=n), n >= 0
RECURSIVE minus_days(_, _)
minus_days(ts, n) ==
    IF n = 0 THEN ts
    ELSE IF ts.day > 1
    THEN minus_days([ts EXCEPT !.day = ts.day - 1], n - 1)
    ELSE IF ts.month > 1
    THEN minus_days([ts EXCEPT !.month = ts.month - 1,
                               !.day = days_in_month(ts.year, ts.month - 1)],
                    n - 1)
    ELSE minus_days([ts EXCEPT !.year = ts.year - 1, !.month = 12, !.day = 31],
                    n - 1)

second_of_day(ts) == ts.hour * 3600 + ts.minute * 60 + ts.second

\* a <= b on naive datetimes
dt_le(a, b) ==
    \/ toordinal(a) < toordinal(b)
    \/ /\ toordinal(a) = toordinal(b)
       /\ \/ second_of_day(a) < second_of_day(b)
          \/ /\ second_of_day(a) = second_of_day(b)
             /\ a.microsecond <= b.microsecond

\* the strings datetime.fromisoformat accepts among those the model passes
\* in, each with the datetime it yields; on any other string it raises
\* ValueError
IsoStrings ==
    { [text |-> "2024-01-01", dt |-> Dt(2024, 1, 1, 0, 0, 0, 0)],
      [text |-> "2024-01-02", dt |-> Dt(2024, 1, 2, 0, 0, 0, 0)],
      [text |-> "2024-01-03", dt |-> Dt(2024, 1, 3, 0, 0, 0, 0)],
      [text |-> "2024-01-03T10:30:00", dt |-> Dt(2024, 1, 3, 10, 30, 0, 0)] }

\* datetime.datetime.fromisoformat(s.text)
fromisoformat(s) ==
    IF \E p \in IsoStrings : p.text = s.text
    THEN Return((CHOOSE p \in IsoStrings : p.text = s.text).dt)
    ELSE Raise("ValueError")

\* ts.isoformat()
isoformat(ts) == [fmt |-> "isoformat", of |-> ts]

\* hasattr(v, 'isoformat'): v is a datetime
has_isoformat(v) == "year" \in DOMAIN v

----------------------------------------------------------------------------
(* The handler's fields, as one record *)

Handler == [data |-> data, bar_data |-> bar_data,
            last_load_time |-> last_load_time,
            bar_last_load_time |-> bar_last_load_time]

SetHandler(h) ==
    /\ data' = h.data
    /\ bar_data' = h.bar_data
    /\ last_load_time' = h.last_load_time
    /\ bar_last_load_time' = h.bar_last_load_time

\* KustoHandler.__init__
SetHandlerInit ==
    /\ data = None
    /\ bar_data = None
    /\ last_load_time = None
    /\ bar_last_load_time = None

----------------------------------------------------------------------------
(* The data source *)

\* the module global a slot is loaded from (kusto.py line 62, line 65)
DataSource(kind) == IF kind = "line" THEN test_data ELSE bar_test_data

\* how a load can end: "ok" yields the dataset; "none" yields no dataset;
\* "raise" fails with DataSourceUnavailable.  The data source of the
\* repository always ends "ok".
StubOutcomes == {"ok"}

LoadOutcomes == {"ok", "none", "raise"}

\* DataSource.load(kind), ending as o says
Load(kind, o) == IF o = "ok" THEN DataSource(kind) ELSE None

LoadRecord(kind, o) == [kind |-> kind, outcome |-> o]

----------------------------------------------------------------------------
(* KustoHandler: the cache *)

\* _is_cache_valid with the boundary included: valid up to and at the TTL
_is_cache_valid_inclusive(llt) ==
    IF llt = None
    THEN FALSE
    ELSE total_seconds(datetime_now, llt) <= cache_duration

\* KustoHandler._is_cache_valid
_is_cache_valid(llt) ==
    IF llt = None
    THEN FALSE
    ELSE total_seconds(datetime_now, llt) < cache_duration

\* _update_cache that stamps the load time and does not store the dataset
_update_cache_stamp_only(h, data_type, o) ==
    IF data_type = "line"
    THEN [self |-> [h EXCEPT !.last_load_time = datetime_now], exc |-> "None"]
    ELSE [self |-> [h EXCEPT !.bar_last_load_time = datetime_now], exc |-> "None"]

\* _update_cache that stamps every load with one clock reading taken once,
\* when the handler was constructed
_update_cache_fixed_stamp(h, data_type, o) ==
    IF data_type = "line"
    THEN [self |-> [h EXCEPT !.data = Load("line", o),
                             !.last_load_time = [secs |-> 0]],
          exc |-> "None"]
    ELSE [self |-> [h EXCEPT !.bar_data = Load("bar", o),
                             !.bar_last_load_time = [secs |-> 0]],
          exc |-> "None"]

\* _update_cache that reloads both slots whichever is asked for
_update_cache_both(h, data_type, o) ==
    IF o = "raise"
    THEN [self |-> h, exc |-> "DataSourceUnavailable"]
    ELSE [self |-> [h EXCEPT !.data = Load("line", o),
                             !.last_load_time = datetime_now,
                             !.bar_data = Load("bar", o),
                             !.bar_last_load_time = datetime_now],
          exc |-> "None"]

\* KustoHandler._update_cache, the load ending as o says: the handler after
\* it, and the exception that left it (None when it returned)
_update_cache(h, data_type, o) ==
    IF data_type = "line"
    THEN IF o = "raise"
         THEN [self |-> h, exc |-> "DataSourceUnavailable"]
         ELSE [self |-> [h EXCEPT !.data = Load("line", o),
                                  !.last_load_time = datetime_now],
               exc |-> "None"]
    ELSE IF data_type = "bar"
    THEN IF o = "raise"
         THEN [self |-> h, exc |-> "DataSourceUnavailable"]
         ELSE [self |-> [h EXCEPT !.bar_data = Load("bar", o),
                                  !.bar_last_load_time = datetime_now],
               exc |-> "None"]
    ELSE [self |-> h, exc |-> "None"]

\* get_data that reloads on every call
get_data_run_reload(h, o) ==
    LET u == _update_cache(h, "line", o)
    IN  [self |-> u.self, ret |-> Return(u.self.data),
         loads |-> <<LoadRecord("line", o)>>]

\* KustoHandler.get_data on handler h: the handler after it, what it
\* returned or raised, and the loads it performed
get_data_run(h, o) ==
    IF _is_cache_valid(h.last_load_time)
    THEN [self |-> h, ret |-> Return(h.data), loads |-> <<>>]
    ELSE LET u == _update_cache(h, "line", o) IN
         IF u.exc # "None"
         THEN [self |-> u.self, ret |-> Raise(u.exc),
               loads |-> <<LoadRecord("line", o)>>]
         ELSE [self |-> u.self, ret |-> Return(u.self.data),
               loads |-> <<LoadRecord("line", o)>>]

\* clear_cache that leaves the load times in place
clear_cache_run_keeps_time(h) ==
    [self |-> [h EXCEPT !.data = None, !.bar_data = None],
     ret |-> Return(None), loads |-> <<>>]

\* clear_cache that clears the line slot only
clear_cache_run_line_only(h) ==
    [self |-> [h EXCEPT !.data = None, !.last_load_time = None],
     ret |-> Return(None), loads |-> <<>>]

\* clear_cache that fails on a cache it has nothing to clear in
clear_cache_run_strict(h) ==
    IF h.data = None /\ h.bar_data = None
    THEN [self |-> h, ret |-> Raise("AttributeError"), loads |-> <<>>]
    ELSE [self |-> [data |-> None, bar_data |-> None,
                    last_load_time |-> None, bar_last_load_time |-> None],
          ret |-> Return(None), loads |-> <<>>]

\* KustoHandler.clear_cache
clear_cache_run(h) ==
    [self |-> [data |-> None, bar_data |-> None,
               last_load_time |-> None, bar_last_load_time |-> None],
     ret |-> Return(None), loads |-> <<>>]

\* llt.strftime('%Y-%m-%d %H:%M:%S') if llt else None
last_load(llt) ==
    IF llt = None THEN None ELSE [fmt |-> "%Y-%m-%d %H:%M:%S", secs |-> llt.secs]

\* round(x, 1) of x = secs / 60, in tenths: the nearest tenth; a tie goes
\* either way, as the binary value of the quotient decides
round1(secs) ==
    LET q == (secs * 10) \div 60
        r == (secs * 10) % 60
    IN  IF r < 30 THEN {q} ELSE IF r > 30 THEN {q + 1} ELSE {q, q + 1}

\* the values age_minutes can take for load time llt
age_minutes(llt) ==
    IF llt = None
    THEN {None}
    ELSE { [tenths |-> a] : a \in round1(total_seconds(datetime_now, llt)) }

\* get_cache_status that refreshes a line slot it finds not valid
get_cache_status_run_refresh(h, line_age, bar_age) ==
    LET u == IF _is_cache_valid(h.last_load_time) THEN [self |-> h]
             ELSE _update_cache(h, "line", "ok")
    IN  [self |-> u.self,
         ret |-> Return([line_cache |-> [valid |-> TRUE], bar_cache |-> [valid |-> TRUE]]),
         loads |-> IF u.self = h THEN <<>> ELSE <<LoadRecord("line", "ok")>>]

\* KustoHandler.get_cache_status, with the two rounded ages
get_cache_status_run(h, line_age, bar_age) ==
    [self |-> h,
     ret |-> Return(
        [line_cache |-> [valid |-> _is_cache_valid(h.last_load_time),
                         last_load |-> last_load(h.last_load_time),
                         age_minutes |-> line_age],
         bar_cache |-> [valid |-> _is_cache_valid(h.bar_last_load_time),
                        last_load |-> last_load(h.bar_last_load_time),
                        age_minutes |-> bar_age],
         cache_duration_minutes |-> [tenths |-> (cache_duration * 10) \div 60]]),
     loads |-> <<>>]

----------------------------------------------------------------------------
(* KustoHandler.get_bar_data *)

\* filtered_indices with the end of the window left out: start_dt <= ts[i] < end_dt
RECURSIVE filtered_indices_open_end(_, _, _, _)
filtered_indices_open_end(ts, start_dt, end_dt, i) ==
    IF i > Len(ts) THEN <<>>
    ELSE IF dt_le(start_dt, ts[i]) /\ dt_le(ts[i], end_dt) /\ ts[i] # end_dt
    THEN <<i>> \o filtered_indices_open_end(ts, start_dt, end_dt, i + 1)
    ELSE filtered_indices_open_end(ts, start_dt, end_dt, i + 1)

\* the indices i of column ts with start_dt <= ts[i] <= end_dt, ascending
RECURSIVE filtered_indices(_, _, _, _)
filtered_indices(ts, start_dt, end_dt, i) ==
    IF i > Len(ts) THEN <<>>
    ELSE IF dt_le(start_dt, ts[i]) /\ dt_le(ts[i], end_dt)
    THEN <<i>> \o filtered_indices(ts, start_dt, end_dt, i + 1)
    ELSE filtered_indices(ts, start_dt, end_dt, i + 1)

\* Pick that takes the entries in descending order of index
Pick_reversed(column, indices) ==
    [k \in 1 .. Len(indices) |-> column[indices[Len(indices) + 1 - k]]]

\* [column[i] for i in indices]
Pick(column, indices) == [k \in 1 .. Len(indices) |-> column[indices[k]]]

\* d[key] = value on a dict
SetItem(d, key, value) ==
    [k \in DOMAIN d \cup {key} |-> IF k = key THEN value ELSE d[k]]

\* bar_prepare that filters by whichever of the two dates is given
bar_prepare_one_sided(h, feature, start_date, end_date, o) ==
    LET hit == _is_cache_valid(h.bar_last_load_time) /\ Truthy(h.bar_data)
        u == IF hit THEN [self |-> h, exc |-> "None"]
             ELSE _update_cache(h, "bar", o)
        h1 == u.self
        lds == IF hit THEN <<>> ELSE <<LoadRecord("bar", o)>>
        copied == IF Truthy(h1.bar_data) THEN h1.bar_data ELSE bar_test_data
        start_dt == IF Truthy(start_date) THEN fromisoformat(start_date)
                    ELSE Return(Dt(1, 1, 1, 0, 0, 0, 0))
        end_p == IF Truthy(end_date) THEN fromisoformat(end_date)
                 ELSE Return(Dt(9999, 12, 31, 23, 59, 59, 999999))
        end_dt == [end_p.value EXCEPT !.hour = 23, !.minute = 59, !.second = 59]
        idx == filtered_indices(h1.bar_data["timestamp"], start_dt.value, end_dt, 1)
    IN  IF u.exc # "None"
        THEN [self |-> h1, exc |-> u.exc, filtered_data |-> None, loads |-> lds]
        ELSE IF ~((Truthy(start_date) \/ Truthy(end_date)) /\ Truthy(h1.bar_data))
        THEN [self |-> h1, exc |-> "None", filtered_data |-> copied, loads |-> lds]
        ELSE IF start_dt.outcome = "raise" \/ end_p.outcome = "raise"
        THEN [self |-> h1, exc |-> "ValueError", filtered_data |-> None, loads |-> lds]
        ELSE IF idx # <<>> /\ feature \notin DOMAIN h1.bar_data
        THEN [self |-> h1, exc |-> "KeyError", filtered_data |-> None, loads |-> lds]
        ELSE [self |-> h1, exc |-> "None", loads |-> lds,
              filtered_data |->
                 SetItem(SetItem(copied, "timestamp",
                                 Pick(h1.bar_data["timestamp"], idx)),
                         feature,
                         IF idx = <<>> THEN <<>>
                         ELSE Pick(h1.bar_data[feature], idx))]

\* bar_prepare without the copy: filtered_data is self.bar_data itself, and
\* the filtered columns are stored into the snapshot
bar_prepare_in_place(h, feature, start_date, end_date, o) ==
    LET hit == _is_cache_valid(h.bar_last_load_time) /\ Truthy(h.bar_data)
        u == IF hit THEN [self |-> h, exc |-> "None"]
             ELSE _update_cache(h, "bar", o)
        h1 == u.self
        lds == IF hit THEN <<>> ELSE <<LoadRecord("bar", o)>>
        copied == IF Truthy(h1.bar_data) THEN h1.bar_data ELSE bar_test_data
        start_dt == fromisoformat(start_date)
        end_p == fromisoformat(end_date)
        end_dt == [end_p.value EXCEPT !.hour = 23, !.minute = 59, !.second = 59]
        idx == filtered_indices(h1.bar_data["timestamp"], start_dt.value, end_dt, 1)
        stored == SetItem(SetItem(copied, "timestamp",
                                  Pick(h1.bar_data["timestamp"], idx)),
                          feature,
                          IF idx = <<>> THEN <<>>
                          ELSE Pick(h1.bar_data[feature], idx))
    IN  IF u.exc # "None"
        THEN [self |-> h1, exc |-> u.exc, filtered_data |-> None, loads |-> lds]
        ELSE IF ~(Truthy(start_date) /\ Truthy(end_date) /\ Truthy(h1.bar_data))
        THEN [self |-> h1, exc |-> "None", filtered_data |-> copied, loads |-> lds]
        ELSE IF start_dt.outcome = "raise" \/ end_p.outcome = "raise"
        THEN [self |-> h1, exc |-> "ValueError", filtered_data |-> None, loads |-> lds]
        ELSE IF idx # <<>> /\ feature \notin DOMAIN h1.bar_data
        THEN [self |-> h1, exc |-> "KeyError", filtered_data |-> None, loads |-> lds]
        ELSE [self |-> [h1 EXCEPT !.bar_data = stored], exc |-> "None",
              loads |-> lds, filtered_data |-> stored]

\* lines 88-115: the cache check or refresh, then the date filter.  The
\* handler after them, the exception that left them ("None" when none
\* did), filtered_data, and the loads performed.
bar_prepare(h, feature, start_date, end_date, o) ==
    LET hit == _is_cache_valid(h.bar_last_load_time) /\ Truthy(h.bar_data)
        u == IF hit THEN [self |-> h, exc |-> "None"]
             ELSE _update_cache(h, "bar", o)
        h1 == u.self
        lds == IF hit THEN <<>> ELSE <<LoadRecord("bar", o)>>
        copied == IF Truthy(h1.bar_data) THEN h1.bar_data ELSE bar_test_data
        start_dt == fromisoformat(start_date)
        end_p == fromisoformat(end_date)
        end_dt == [end_p.value EXCEPT !.hour = 23, !.minute = 59, !.second = 59]
        idx == filtered_indices(h1.bar_data["timestamp"], start_dt.value, end_dt, 1)
    IN  IF u.exc # "None"
        THEN [self |-> h1, exc |-> u.exc, filtered_data |-> None, loads |-> lds]
        ELSE IF ~(Truthy(start_date) /\ Truthy(end_date) /\ Truthy(h1.bar_data))
        THEN [self |-> h1, exc |-> "None", filtered_data |-> copied, loads |-> lds]
        ELSE IF start_dt.outcome = "raise" \/ end_p.outcome = "raise"
        THEN [self |-> h1, exc |-> "ValueError", filtered_data |-> None, loads |-> lds]
        ELSE IF idx # <<>> /\ feature \notin DOMAIN h1.bar_data
        THEN [self |-> h1, exc |-> "KeyError", filtered_data |-> None, loads |-> lds]
        ELSE [self |-> h1, exc |-> "None", loads |-> lds,
              filtered_data |->
                 SetItem(SetItem(copied, "timestamp",
                                 Pick(h1.bar_data["timestamp"], idx)),
                         feature,
                         IF idx = <<>> THEN <<>>
                         ELSE Pick(h1.bar_data[feature], idx))]

BinSizes == {"1H", "1D", "1W", "1M", "3M"}

\* bucket_key with the quarter computed as month // 3 + 1
bucket_key_quarter_shifted(ts, b) ==
    IF b = "1H"
    THEN [fmt |-> "%Y-%m-%d %H:00", year |-> ts.year, month |-> ts.month,
          day |-> ts.day, hour |-> ts.hour]
    ELSE IF b = "1D"
    THEN [fmt |-> "%Y-%m-%d", year |-> ts.year, month |-> ts.month,
          day |-> ts.day]
    ELSE IF b = "1W"
    THEN LET week_start == minus_days(ts, weekday(ts))
         IN  [fmt |-> "%Y-%m-%d", year |-> week_start.year,
              month |-> week_start.month, day |-> week_start.day]
    ELSE IF b = "1M"
    THEN [fmt |-> "%Y-%m", year |-> ts.year, month |-> ts.month]
    ELSE [fmt |-> "{year}-Q{quarter}", year |-> ts.year,
          quarter |-> ts.month \div 3 + 1]

\* the bucket key of timestamp ts under bin size b
bucket_key(ts, b) ==
    IF b = "1H"
    THEN [fmt |-> "%Y-%m-%d %H:00", year |-> ts.year, month |-> ts.month,
          day |-> ts.day, hour |-> ts.hour]
    ELSE IF b = "1D"
    THEN [fmt |-> "%Y-%m-%d", year |-> ts.year, month |-> ts.month,
          day |-> ts.day]
    ELSE IF b = "1W"
    THEN LET week_start == minus_days(ts, weekday(ts))
         IN  [fmt |-> "%Y-%m-%d", year |-> week_start.year,
              month |-> week_start.month, day |-> week_start.day]
    ELSE IF b = "1M"
    THEN [fmt |-> "%Y-%m", year |-> ts.year, month |-> ts.month]
    ELSE [fmt |-> "{year}-Q{quarter}", year |-> ts.year,
          quarter |-> (ts.month - 1) \div 3 + 1]

\* position of the entry of sequence q whose field f is v, 0 when none
IndexOf(q, f, v) ==
    IF \E k \in 1 .. Len(q) : q[k][f] = v
    THEN CHOOSE k \in 1 .. Len(q) : q[k][f] = v /\ \A j \in 1 .. k - 1 : q[j][f] # v
    ELSE 0

\* Increment on a list of (value, count) entries: every row adds an entry
Increment_append(counts, value) == Append(counts, [value |-> value, count |-> 1])

\* counts[value] = counts.get(value, 0) + 1 on an insertion-ordered dict
Increment(counts, value) ==
    LET k == IndexOf(counts, "value", value)
    IN  IF k = 0 THEN Append(counts, [value |-> value, count |-> 1])
        ELSE [counts EXCEPT ![k].count = @ + 1]

\* fill_bins without the test "if key not in bins": every row starts its
\* bucket anew
RECURSIVE fill_bins_reset(_, _, _, _, _)
fill_bins_reset(bins, ts, values, b, i) ==
    IF i > Len(ts) THEN bins
    ELSE LET key == bucket_key(ts[i], b)
             k == IndexOf(bins, "key", key)
             bins1 == IF k = 0 THEN Append(bins, [key |-> key, counts |-> <<>>])
                      ELSE [bins EXCEPT ![k].counts = <<>>]
             k1 == IF k = 0 THEN Len(bins1) ELSE k
         IN  fill_bins_reset([bins1 EXCEPT ![k1].counts = Increment(@, values[i])],
                             ts, values, b, i + 1)

\* the loop over the rows: bins after rows i .. of the two columns
RECURSIVE fill_bins(_, _, _, _, _)
fill_bins(bins, ts, values, b, i) ==
    IF i > Len(ts) THEN bins
    ELSE LET key == bucket_key(ts[i], b)
             k == IndexOf(bins, "key", key)
             bins1 == IF k = 0 THEN Append(bins, [key |-> key, counts |-> <<>>])
                      ELSE bins
             k1 == IF k = 0 THEN Len(bins1) ELSE k
         IN  fill_bins([bins1 EXCEPT ![k1].counts = Increment(@, values[i])],
                       ts, values, b, i + 1)

\* the records of one bucket
bin_records(bin) ==
    [j \in 1 .. Len(bin.counts) |->
        [date |-> bin.key, value |-> bin.counts[j].value,
         count |-> bin.counts[j].count]]

\* flatten that lists the buckets last first
RECURSIVE flatten_reversed(_, _)
flatten_reversed(bins, i) ==
    IF i > Len(bins) THEN <<>>
    ELSE flatten_reversed(bins, i + 1) \o bin_records(bins[i])

\* result: the records of every bucket, in the order of bins
RECURSIVE flatten(_, _)
flatten(bins, i) ==
    IF i > Len(bins) THEN <<>>
    ELSE bin_records(bins[i]) \o flatten(bins, i + 1)

\* aggregate that takes its first bucket from the first row before the loop
aggregate_first_row(filtered_data, feature, b) ==
    IF filtered_data["timestamp"] # <<>> /\ feature \notin DOMAIN filtered_data
    THEN Raise("KeyError")
    ELSE IF filtered_data["timestamp"] = <<>>
    THEN Raise("IndexError")
    ELSE Return(flatten(fill_bins(<<>>, filtered_data["timestamp"],
                                  filtered_data[feature], b, 1), 1))

\* one "Group by" branch for a known bin size b
aggregate(filtered_data, feature, b) ==
    IF filtered_data["timestamp"] # <<>> /\ feature \notin DOMAIN filtered_data
    THEN Raise("KeyError")
    ELSE IF filtered_data["timestamp"] = <<>>
    THEN Return(<<>>)
    ELSE Return(flatten(fill_bins(<<>>, filtered_data["timestamp"],
                                  filtered_data[feature], b, 1), 1))

\* get_bar_data whose last branch falls back to hourly bins
RECURSIVE get_bar_data_run_hourly(_, _, _, _, _, _)
get_bar_data_run_hourly(h, feature, start_date, end_date, bin_size, os) ==
    LET p == bar_prepare(h, feature, start_date, end_date, Head(os))
    IN  IF p.exc # "None"
        THEN [self |-> p.self, ret |-> Raise(p.exc), loads |-> p.loads]
        ELSE IF bin_size \in BinSizes
        THEN [self |-> p.self,
              ret |-> aggregate(p.filtered_data, feature, bin_size),
              loads |-> p.loads]
        ELSE LET r == get_bar_data_run_hourly(p.self, feature, start_date,
                                               end_date, "1H", Tail(os))
             IN  [r EXCEPT !.loads = p.loads \o @]

\* KustoHandler.get_bar_data on handler h, its loads ending as os says
RECURSIVE get_bar_data_run(_, _, _, _, _, _)
get_bar_data_run(h, feature, start_date, end_date, bin_size, os) ==
    LET p == bar_prepare(h, feature, start_date, end_date, Head(os))
    IN  IF p.exc # "None"
        THEN [self |-> p.self, ret |-> Raise(p.exc), loads |-> p.loads]
        ELSE IF bin_size \in BinSizes
        THEN [self |-> p.self,
              ret |-> aggregate(p.filtered_data, feature, bin_size),
              loads |-> p.loads]
        ELSE LET r == get_bar_data_run(p.self, feature, start_date, end_date,
                                        "1D", Tail(os))
             IN  [r EXCEPT !.loads = p.loads \o @]

\* KustoHandler.get_available_features
get_available_features_run(h) ==
    [self |-> h, ret |-> Return(DOMAIN bar_test_data \ {"timestamp"}),
     loads |-> <<>>]

----------------------------------------------------------------------------
(* The route over get_data *)

\* apis/events.py get_kusto_data on handler h and line source src: data is
\* the dict object that both self.data and test_data name, so the
\* assignment to data["timestamp"] changes it under both names
get_kusto_data_run(h, src, o) ==
    LET r == get_data_run(h, o)
        d == r.ret.value
        serialised == [d EXCEPT !["timestamp"] =
                          [k \in 1 .. Len(d["timestamp"]) |->
                              isoformat(d["timestamp"][k])]]
    IN  IF r.ret.outcome = "raise"
        THEN [self |-> r.self, test_data |-> src, loads |-> r.loads,
              ret |-> Raise("HTTPException(500)")]
        ELSE IF /\ Truthy(d)
                /\ "timestamp" \in DOMAIN d
                /\ Truthy(d["timestamp"])
                /\ has_isoformat(d["timestamp"][1])
        THEN [self |-> [r.self EXCEPT !.data = serialised],
              test_data |-> serialised, loads |-> r.loads,
              ret |-> Return(serialised)]
        ELSE [self |-> r.self, test_data |-> src, loads |-> r.loads,
              ret |-> r.ret]

----------------------------------------------------------------------------
(* The datasets and the requests of the model *)

\* test_data as the module builds it: datetime timestamps
LineDataset ==
    [x |-> <<1, 2>>,
     timestamp |-> <<Dt(2024, 1, 3, 9, 0, 0, 0), Dt(2024, 1, 2, 9, 0, 0, 0)>>]

\* bar_test_data as the module may build it
BarDatasets ==
    { [timestamp |-> <<Dt(2024, 1, 1, 0, 0, 0, 0),
                       Dt(2024, 1, 3, 23, 59, 59, 0),
                       Dt(2024, 1, 3, 23, 59, 59, 500000)>>,
       status |-> <<"active", "failed", "active">>],
      [timestamp |-> <<>>, status |-> <<>>] }

\* the arguments of one get_bar_data call
Request(feature, start_date, end_date, bin_size) ==
    [feature |-> feature, start_date |-> start_date, end_date |-> end_date,
     bin_size |-> bin_size]

\* the get_bar_data calls of the model
BarRequests ==
    { Request("status", None, None, "1D"),
      Request("status", Str("2024-01-01"), Str("2024-01-03"), "1W"),
      Request("status", Str("2024-01-01"), Str("2024-01-02"), "2D"),
      Request("missing", Str("2024-01-02"), Str("2024-01-03"), "1D"),
      Request("status", Str("2024-01-01"), Str("not-a-date"), "1D") }

----------------------------------------------------------------------------
(* Calls in progress *)

\* the threads that call the one KustoHandler of apis/events.py
MaxThreads == 2

\* the calls each of them makes
MaxCalls == 1

ThreadIds == 1 .. MaxThreads

\* a thread that is in no call of the handler and has made none
Idle ==
    [method |-> "idle", pc |-> "idle", calls |-> 0, args |-> None,
     local |-> None,
     ret |-> None, loads |-> 0, missed |-> FALSE, early |-> FALSE,
     stamp |-> None, overlapped |-> FALSE, seen |-> None]

\* the assignment of one call to a field of the handler
Write(kind, t) == [kind |-> kind, by |-> t]

\* KustoHandler.__init__ assigned all four fields
Constructed ==
    [data |-> Write("__init__", 0), last_load_time |-> Write("__init__", 0),
     bar_data |-> Write("__init__", 0),
     bar_last_load_time |-> Write("__init__", 0)]

\* the handler is called by one caller at a time, each call running to its end
NoCalls == threads = [t \in ThreadIds |-> Idle] /\ writer = Constructed

----------------------------------------------------------------------------
(* The state machine *)

Called(name, args) == [name |-> name, args |-> args]

Init ==
    /\ now = 0
    /\ SetHandlerInit
    /\ test_data = LineDataset
    /\ bar_test_data \in BarDatasets
    /\ op = Called("__init__", <<>>)
    /\ ret = Return(None)
    /\ loads = <<>>
    /\ pre = Handler
    /\ cleared = [line |-> None, bar |-> None]
    /\ NoCalls

\* Tick with a background sweep that drops the slots the TTL has run out on
Tick_evicting ==
    /\ \E t \in Instants :
          /\ t > now
          /\ now' = t
          /\ IF last_load_time # None /\ t - last_load_time.secs >= cache_duration
             THEN data' = None /\ last_load_time' = None
             ELSE UNCHANGED <<data, last_load_time>>
          /\ IF bar_last_load_time # None
                /\ t - bar_last_load_time.secs >= cache_duration
             THEN bar_data' = None /\ bar_last_load_time' = None
             ELSE UNCHANGED <<bar_data, bar_last_load_time>>
    /\ op' = Called("tick", <<>>)
    /\ ret' = Return(None)
    /\ loads' = <<>>
    /\ pre' = Handler
    /\ UNCHANGED <<test_data, bar_test_data, cleared, threads, writer>>

\* the clock moves on to a later instant
Tick ==
    /\ \E t \in Instants : t > now /\ now' = t
    /\ op' = Called("tick", <<>>)
    /\ ret' = Return(None)
    /\ loads' = <<>>
    /\ pre' = Handler
    /\ UNCHANGED <<data, bar_data, last_load_time, bar_last_load_time,
                   test_data, bar_test_data, cleared, threads, writer>>

\* an operation of the handler that ended as r says
Ran(name, args, r) ==
    /\ SetHandler(r.self)
    /\ op' = Called(name, args)
    /\ ret' = r.ret
    /\ loads' = r.loads
    /\ pre' = Handler
    /\ cleared' =
          IF name = "clear_cache"
          THEN [line |-> IF last_load_time # None THEN last_load_time
                         ELSE cleared.line,
                bar |-> IF bar_last_load_time # None THEN bar_last_load_time
                        ELSE cleared.bar]
          ELSE cleared
    /\ UNCHANGED <<now, bar_test_data, threads, writer>>

get_data(outcomes) ==
    \E o \in outcomes :
        /\ Ran("get_data", <<>>, get_data_run(Handler, o))
        /\ UNCHANGED test_data

get_bar_data(outcomes) ==
    \E q \in BarRequests, o1 \in outcomes :
      \E o2 \in IF q.bin_size \in BinSizes THEN {"ok"} ELSE outcomes :
        /\ Ran("get_bar_data", q,
               get_bar_data_run(Handler, q.feature, q.start_date, q.end_date,
                                q.bin_size, <<o1, o2>>))
        /\ UNCHANGED test_data

get_available_features ==
    /\ Ran("get_available_features", <<>>, get_available_features_run(Handler))
    /\ UNCHANGED test_data

clear_cache ==
    /\ Ran("clear_cache", <<>>, clear_cache_run(Handler))
    /\ UNCHANGED test_data

get_cache_status ==
    \E line_age \in age_minutes(last_load_time),
       bar_age \in age_minutes(bar_last_load_time) :
        /\ Ran("get_cache_status", <<>>,
               get_cache_status_run(Handler, line_age, bar_age))
        /\ UNCHANGED test_data

get_kusto_data(outcomes) ==
    \E o \in outcomes :
        LET r == get_kusto_data_run(Handler, test_data, o)
        IN  /\ Ran("get_kusto_data", <<>>, r)
            /\ test_data' = r.test_data

\* the program: the data source of the repository, whose loads all succeed
Next ==
    \/ Tick
    \/ get_data(StubOutcomes)
    \/ get_bar_data(StubOutcomes)
    \/ get_available_features
    \/ clear_cache
    \/ get_cache_status
    \/ get_kusto_data(StubOutcomes)

Spec == Init /\ [][Next]_vars

\* the program over a data source whose loads may fail
NextUnavailable ==
    \/ Tick
    \/ get_data(LoadOutcomes)
    \/ get_bar_data(LoadOutcomes)
    \/ get_available_features
    \/ clear_cache
    \/ get_cache_status
    \/ get_kusto_data(LoadOutcomes)

SpecUnavailable == Init /\ [][NextUnavailable]_vars

----------------------------------------------------------------------------
(* get_bar_data over any dataset: the filter and the aggregation *)

\* a dataset has at most MaxRows rows
MaxRows == 2

\* the timestamps a row can carry: midnight of 2024-01-01, the last whole
\* second of 2024-01-03, half a second after it, midnight of 2024-01-04,
\* and noon of the last day of 2023.  datetime.now() at import gives the
\* rows microseconds.
BarTimestamps ==
    { Dt(2024, 1, 1, 0, 0, 0, 0),
      Dt(2024, 1, 3, 23, 59, 59, 0),
      Dt(2024, 1, 3, 23, 59, 59, 500000),
      Dt(2024, 1, 4, 0, 0, 0, 0),
      Dt(2023, 12, 31, 12, 0, 0, 0) }

\* two of the values random.choice draws for the column "status"
StatusValues == {"active", "failed"}

BarRows == [timestamp : BarTimestamps, status : StatusValues]

\* bar_test_data: the columns "timestamp" and "status" over any rows
AnyBarDatasets ==
    { [timestamp |-> [i \in 1 .. Len(rows) |-> rows[i].timestamp],
       status |-> [i \in 1 .. Len(rows) |-> rows[i].status]] :
        rows \in UNION { [1 .. n -> BarRows] : n \in 0 .. MaxRows } }

\* the (start_date, end_date) a caller passes: start_date a calendar date,
\* end_date a calendar date or one with a time of day, either of them
\* left out or not a date at all
DatePairs ==
    { <<None, None>>,
      <<Str("2024-01-01"), None>>,
      <<None, Str("2024-01-03")>>,
      <<Str("2024-01-01"), Str("2024-01-02")>>,
      <<Str("2024-01-01"), Str("2024-01-03")>>,
      <<Str("2024-01-01"), Str("2024-01-03T10:30:00")>>,
      <<Str("2024-01-01"), Str("not-a-date")>>,
      <<None, Str("not-a-date")>> }

\* the windows asked for under every bin size
BinnedPairs ==
    { <<None, None>>,
      <<Str("2024-01-01"), Str("2024-01-03")>> }

\* the bin sizes a caller passes: the known ones and one that is unknown
AnyBinSizes == BinSizes \cup {"2D"}

AnyBarRequests ==
    { Request("status", p[1], p[2], "1D") : p \in DatePairs }
    \cup
    { Request("status", p[1], p[2], b) : p \in BinnedPairs, b \in AnyBinSizes }
    \cup
    { Request("missing", None, None, "1D") }
    \cup
    { Request("missing", Str("2024-01-01"), Str("2024-01-02"), b) :
        b \in {"1D", "1W", "2D"} }

InitBar ==
    /\ now = 0
    /\ SetHandlerInit
    /\ test_data = LineDataset
    /\ bar_test_data \in AnyBarDatasets
    /\ op = Called("__init__", <<>>)
    /\ ret = Return(None)
    /\ loads = <<>>
    /\ pre = Handler
    /\ cleared = [line |-> None, bar |-> None]
    /\ NoCalls

\* get_bar_data called with any of the requests
get_bar_data_any ==
    \E q \in AnyBarRequests :
        /\ Ran("get_bar_data", q,
               get_bar_data_run(Handler, q.feature, q.start_date, q.end_date,
                                q.bin_size, <<"ok", "ok">>))
        /\ UNCHANGED test_data

NextBar == get_bar_data_any

SpecBar == InitBar /\ [][NextBar]_vars

----------------------------------------------------------------------------
(* get_bar_data over the calendar: the bucket keys *)

\* the rows' timestamps lie in MaxYears years from FirstYear on
FirstYear == 2023

MaxYears == 2

\* noon of every day of those years
CalendarDays ==
    { Dt(y, m, d, 12, 0, 0, 0) :
        y \in FirstYear .. FirstYear + MaxYears - 1, m \in 1 .. 12, d \in 1 .. 31 }

\* bar_test_data with one row
CalendarDatasets ==
    { [timestamp |-> <<t>>, status |-> <<"active">>] :
        t \in { c \in CalendarDays : c.day <= days_in_month(c.year, c.month) } }

InitCalendar ==
    /\ now = 0
    /\ SetHandlerInit
    /\ test_data = LineDataset
    /\ bar_test_data \in CalendarDatasets
    /\ op = Called("__init__", <<>>)
    /\ ret = Return(None)
    /\ loads = <<>>
    /\ pre = Handler
    /\ cleared = [line |-> None, bar |-> None]
    /\ NoCalls

\* get_bar_data called on the whole dataset under a known bin size
get_bar_data_binned ==
    \E b \in BinSizes :
        LET q == Request("status", None, None, b)
        IN  /\ Ran("get_bar_data", q,
                   get_bar_data_run(Handler, q.feature, q.start_date, q.end_date,
                                    q.bin_size, <<"ok", "ok">>))
            /\ UNCHANGED test_data

NextCalendar == get_bar_data_binned

SpecCalendar == InitCalendar /\ [][NextCalendar]_vars

----------------------------------------------------------------------------
(* get_bar_data over datasets of several rows: the order of the result *)

\* a dataset has at most MaxOrderRows rows
MaxOrderRows == 3

\* the rows: two days of one week, month and quarter, and a day of the week,
\* the month, the quarter and the year before
OrderRows ==
    [timestamp : { Dt(2024, 1, 1, 0, 0, 0, 0),
                   Dt(2024, 1, 3, 23, 59, 59, 0),
                   Dt(2023, 12, 31, 12, 0, 0, 0) },
     status : StatusValues]

\* bar_test_data: the columns "timestamp" and "status" over those rows
OrderDatasets ==
    { [timestamp |-> [i \in 1 .. Len(rows) |-> rows[i].timestamp],
       status |-> [i \in 1 .. Len(rows) |-> rows[i].status]] :
        rows \in UNION { [1 .. n -> OrderRows] : n \in 0 .. MaxOrderRows } }

InitOrder ==
    /\ now = 0
    /\ SetHandlerInit
    /\ test_data = LineDataset
    /\ bar_test_data \in OrderDatasets
    /\ op = Called("__init__", <<>>)
    /\ ret = Return(None)
    /\ loads = <<>>
    /\ pre = Handler
    /\ cleared = [line |-> None, bar |-> None]
    /\ NoCalls

NextOrder == get_bar_data_binned

SpecOrder == InitOrder /\ [][NextOrder]_vars

----------------------------------------------------------------------------
(* The handler called from several threads, one statement at a time *)

\* bar_test_data of this specification: the dataset that has rows
ConcurrentBarDataset == CHOOSE d \in BarDatasets : d["timestamp"] # <<>>

\* the get_bar_data calls the threads make: one with a window that leaves
\* out two of the rows, one without a window and with an unknown bin size
ConcurrentRequests ==
    { Request("status", Str("2024-01-01"), Str("2024-01-02"), "1D"),
      Request("status", None, None, "2D") }

\* get_data and get_bar_data, called one after the other, assigned all four
\* fields
Loaded ==
    [data |-> Write("_update_cache", 0),
     last_load_time |-> Write("_update_cache", 0),
     bar_data |-> Write("_update_cache", 0),
     bar_last_load_time |-> Write("_update_cache", 0)]

\* the threads start on a handler as constructed, or on one whose two slots
\* earlier calls have loaded
InitConcurrent ==
    /\ now = 0
    /\ test_data = LineDataset
    /\ bar_test_data = ConcurrentBarDataset
    /\ \/ SetHandlerInit /\ writer = Constructed
       \/ /\ data = test_data
          /\ last_load_time = datetime_now
          /\ bar_data = bar_test_data
          /\ bar_last_load_time = datetime_now
          /\ writer = Loaded
    /\ op = Called("__init__", <<>>)
    /\ ret = Return(None)
    /\ loads = <<>>
    /\ pre = Handler
    /\ cleared = [line |-> None, bar |-> None]
    /\ threads = [t \in ThreadIds |-> Idle]

\* thread t is at statement pc of method
At(t, method, pc) == threads[t].method = method /\ threads[t].pc = pc

\* thread t is inside a call
InCall(t) == threads[t].pc \notin {"idle", "done"}

\* what a statement leaves alone besides the handler and the threads
ThreadFrame ==
    UNCHANGED <<now, test_data, bar_test_data, op, ret, loads, pre, cleared>>

\* a statement that assigns nothing to the handler
Reads ==
    UNCHANGED <<data, bar_data, last_load_time, bar_last_load_time, writer>>

\* self.<field> = value, executed by the call of thread t to method
Assign(field, value, method, t) ==
    /\ data' = IF field = "data" THEN value ELSE data
    /\ bar_data' = IF field = "bar_data" THEN value ELSE bar_data
    /\ last_load_time' =
          IF field = "last_load_time" THEN value ELSE last_load_time
    /\ bar_last_load_time' =
          IF field = "bar_last_load_time" THEN value ELSE bar_last_load_time
    /\ writer' = [writer EXCEPT ![field] = Write(method, t)]

\* thread t goes on as record th says, the other threads stay where they are
Goes(t, th) == threads' = [threads EXCEPT ![t] = th]

\* the call ends by returning or raising r
Ends(th, r) == [th EXCEPT !.pc = "done", !.ret = r]

\* thread t, in no call, calls method with args
Calls(t, method, args, pc) ==
    /\ ~InCall(t)
    /\ threads[t].calls < MaxCalls
    /\ Goes(t, [Idle EXCEPT
                  !.method = method, !.args = args, !.pc = pc,
                  !.calls = threads[t].calls + 1,
                  !.overlapped =
                      \E u \in ThreadIds \ {t} :
                          threads[u].method = "clear_cache" /\ InCall(u)])
    /\ Reads
    /\ ThreadFrame

\* no other thread has assigned a snapshot in the call it is in or has ended
NoneWrote(t) == \A u \in ThreadIds \ {t} : threads[u].loads = 0

----------------------------------------------------------------------------
(* get_data, lines 68-79 *)

call_get_data(t) == Calls(t, "get_data", None, "71")

\* line 71: if self._is_cache_valid(self.last_load_time):
get_data_71(t) ==
    /\ At(t, "get_data", "71")
    /\ LET valid == _is_cache_valid(last_load_time)
       IN  Goes(t, [threads[t] EXCEPT
                      !.pc = IF valid THEN "72" ELSE "62",
                      !.missed = ~valid,
                      !.early = NoneWrote(t),
                      !.seen = [last_load_time |-> writer.last_load_time,
                                data |-> None]])
    /\ Reads
    /\ ThreadFrame

\* line 72: if self.last_load_time:
get_data_72(t) ==
    /\ At(t, "get_data", "72")
    /\ Goes(t, [threads[t] EXCEPT
                  !.pc = IF last_load_time # None THEN "73" ELSE "74"])
    /\ Reads
    /\ ThreadFrame

\* line 73: print(... self.last_load_time.strftime('%H:%M:%S') ...)
get_data_73(t) ==
    /\ At(t, "get_data", "73")
    /\ Goes(t, IF last_load_time = None
               THEN Ends(threads[t], Raise("AttributeError"))
               ELSE [threads[t] EXCEPT !.pc = "74"])
    /\ Reads
    /\ ThreadFrame

\* line 74: return self.data
get_data_74(t) ==
    /\ At(t, "get_data", "74")
    /\ Goes(t, Ends([threads[t] EXCEPT !.seen.data = writer.data],
                    Return(data)))
    /\ Reads
    /\ ThreadFrame

\* line 62 that leaves a snapshot another call has stored in place
get_data_62_if_absent(t) ==
    /\ At(t, "get_data", "62")
    /\ IF data = None
       THEN /\ Assign("data", test_data, "_update_cache", t)
            /\ Goes(t, [threads[t] EXCEPT !.pc = "63", !.loads = @ + 1])
       ELSE /\ Reads
            /\ Goes(t, [threads[t] EXCEPT !.pc = "79"])
    /\ ThreadFrame

\* lines 78, 61, 62: self._update_cache("line"): self.data = test_data
get_data_62(t) ==
    /\ At(t, "get_data", "62")
    /\ Assign("data", test_data, "_update_cache", t)
    /\ Goes(t, [threads[t] EXCEPT !.pc = "63", !.loads = @ + 1])
    /\ ThreadFrame

\* line 63: self.last_load_time = datetime.datetime.now()
get_data_63(t) ==
    /\ At(t, "get_data", "63")
    /\ Assign("last_load_time", datetime_now, "_update_cache", t)
    /\ Goes(t, [threads[t] EXCEPT !.pc = "79", !.stamp = datetime_now])
    /\ ThreadFrame

\* line 79: return self.data
get_data_79(t) ==
    /\ At(t, "get_data", "79")
    /\ Goes(t, Ends(threads[t], Return(data)))
    /\ Reads
    /\ ThreadFrame

----------------------------------------------------------------------------
(* clear_cache, lines 241-247 *)

call_clear_cache(t) == Calls(t, "clear_cache", None, "243")

\* the gets that are in progress while clear_cache assigns
Overlap(t, th) ==
    [u \in ThreadIds |->
        IF u = t THEN th
        ELSE IF InCall(u) THEN [threads[u] EXCEPT !.overlapped = TRUE]
        ELSE threads[u]]

\* self.<field> = None at statement pc of clear_cache, then on to statement nxt
clear_cache_assign(t, pc, field, nxt) ==
    /\ At(t, "clear_cache", pc)
    /\ Assign(field, None, "clear_cache", t)
    /\ threads' = Overlap(t, IF nxt = "done"
                             THEN Ends(threads[t], Return(None))
                             ELSE [threads[t] EXCEPT !.pc = nxt])
    /\ ThreadFrame

\* line 243: self.data = None
clear_cache_243(t) == clear_cache_assign(t, "243", "data", "244")

\* line 244: self.bar_data = None
clear_cache_244(t) == clear_cache_assign(t, "244", "bar_data", "245")

\* line 245: self.last_load_time = None
clear_cache_245(t) == clear_cache_assign(t, "245", "last_load_time", "246")

\* line 246: self.bar_last_load_time = None, and the method returns
clear_cache_246(t) == clear_cache_assign(t, "246", "bar_last_load_time", "done")

----------------------------------------------------------------------------
(* get_bar_data, lines 85-235 *)

\* the locals of get_bar_data before any of them is assigned
NoLocals ==
    [filtered_data |-> None, start_dt |-> None, end_dt |-> None,
     filtered_indices |-> None]

call_get_bar_data(t) ==
    \E q \in ConcurrentRequests :
        Calls(t, "get_bar_data", q, "88")

\* line 88: if self._is_cache_valid(self.bar_last_load_time) and self.bar_data:
get_bar_data_88(t) ==
    /\ At(t, "get_bar_data", "88")
    /\ LET valid == _is_cache_valid(bar_last_load_time)
           hit == valid /\ Truthy(bar_data)
       IN  Goes(t, [threads[t] EXCEPT
                      !.pc = IF hit THEN "89" ELSE "65",
                      !.local = NoLocals,
                      !.missed = @ \/ ~hit,
                      !.early = IF threads[t].seen = None THEN NoneWrote(t)
                                ELSE @,
                      !.seen = [last_load_time |-> writer.bar_last_load_time,
                                data |-> IF valid THEN writer.bar_data
                                         ELSE None]])
    /\ Reads
    /\ ThreadFrame

\* line 89: if self.bar_last_load_time:
get_bar_data_89(t) ==
    /\ At(t, "get_bar_data", "89")
    /\ Goes(t, [threads[t] EXCEPT
                  !.pc = IF bar_last_load_time # None THEN "90" ELSE "91"])
    /\ Reads
    /\ ThreadFrame

\* line 90: print(... self.bar_last_load_time.strftime('%H:%M:%S') ...)
get_bar_data_90(t) ==
    /\ At(t, "get_bar_data", "90")
    /\ Goes(t, IF bar_last_load_time = None
               THEN Ends(threads[t], Raise("AttributeError"))
               ELSE [threads[t] EXCEPT !.pc = "91"])
    /\ Reads
    /\ ThreadFrame

\* filtered_data = self.bar_data.copy() at statement pc
get_bar_data_copy(t, pc) ==
    /\ At(t, "get_bar_data", pc)
    /\ Goes(t, IF bar_data = None
               THEN Ends(threads[t], Raise("AttributeError"))
               ELSE [threads[t] EXCEPT
                       !.pc = "103", !.local.filtered_data = bar_data])
    /\ Reads
    /\ ThreadFrame

\* line 91: filtered_data = self.bar_data.copy()
get_bar_data_91(t) == get_bar_data_copy(t, "91")

\* lines 95, 64, 65: self._update_cache("bar"): self.bar_data = bar_test_data
get_bar_data_65(t) ==
    /\ At(t, "get_bar_data", "65")
    /\ Assign("bar_data", bar_test_data, "_update_cache", t)
    /\ Goes(t, [threads[t] EXCEPT !.pc = "66", !.loads = @ + 1])
    /\ ThreadFrame

\* line 66: self.bar_last_load_time = datetime.datetime.now()
get_bar_data_66(t) ==
    /\ At(t, "get_bar_data", "66")
    /\ Assign("bar_last_load_time", datetime_now, "_update_cache", t)
    /\ Goes(t, [threads[t] EXCEPT !.pc = "97", !.stamp = datetime_now])
    /\ ThreadFrame

\* line 97: if self.bar_data:
get_bar_data_97(t) ==
    /\ At(t, "get_bar_data", "97")
    /\ Goes(t, [threads[t] EXCEPT
                  !.pc = IF Truthy(bar_data) THEN "98" ELSE "101"])
    /\ Reads
    /\ ThreadFrame

\* line 98: filtered_data = self.bar_data.copy()
get_bar_data_98(t) == get_bar_data_copy(t, "98")

\* line 101: filtered_data = bar_test_data.copy()
get_bar_data_101(t) ==
    /\ At(t, "get_bar_data", "101")
    /\ Goes(t, [threads[t] EXCEPT
                  !.pc = "103", !.local.filtered_data = bar_test_data])
    /\ Reads
    /\ ThreadFrame

\* line 103: if start_date and end_date and self.bar_data:
get_bar_data_103(t) ==
    /\ At(t, "get_bar_data", "103")
    /\ LET q == threads[t].args
       IN  Goes(t, [threads[t] EXCEPT
                      !.pc = IF Truthy(q.start_date) /\ Truthy(q.end_date)
                                /\ Truthy(bar_data)
                             THEN "104" ELSE "118"])
    /\ Reads
    /\ ThreadFrame

\* lines 104-106: start_dt and end_dt from the two strings
get_bar_data_104(t) ==
    /\ At(t, "get_bar_data", "104")
    /\ LET q == threads[t].args
           start_dt == fromisoformat(q.start_date)
           end_dt == fromisoformat(q.end_date)
       IN  Goes(t, IF start_dt.outcome = "raise" \/ end_dt.outcome = "raise"
                   THEN Ends(threads[t], Raise("ValueError"))
                   ELSE [threads[t] EXCEPT
                           !.pc = "109",
                           !.local.start_dt = start_dt.value,
                           !.local.end_dt =
                               [end_dt.value EXCEPT
                                  !.hour = 23, !.minute = 59, !.second = 59]])
    /\ Reads
    /\ ThreadFrame

\* lines 109-112: filtered_indices over self.bar_data["timestamp"]
get_bar_data_109(t) ==
    /\ At(t, "get_bar_data", "109")
    /\ LET l == threads[t].local
       IN  Goes(t, IF bar_data = None
                   THEN Ends(threads[t], Raise("TypeError"))
                   ELSE [threads[t] EXCEPT
                           !.pc = "114",
                           !.local.filtered_indices =
                               filtered_indices(bar_data["timestamp"],
                                                l.start_dt, l.end_dt, 1)])
    /\ Reads
    /\ ThreadFrame

\* line 114: filtered_data["timestamp"] = [self.bar_data["timestamp"][i] ...]
get_bar_data_114(t) ==
    /\ At(t, "get_bar_data", "114")
    /\ LET l == threads[t].local
           idx == l.filtered_indices
       IN  Goes(t, IF idx # <<>> /\ bar_data = None
                   THEN Ends(threads[t], Raise("TypeError"))
                   ELSE [threads[t] EXCEPT
                           !.pc = "115",
                           !.local.filtered_data =
                               SetItem(l.filtered_data, "timestamp",
                                       IF idx = <<>> THEN <<>>
                                       ELSE Pick(bar_data["timestamp"], idx))])
    /\ Reads
    /\ ThreadFrame

\* line 115: filtered_data[feature] = [self.bar_data[feature][i] ...]
get_bar_data_115(t) ==
    /\ At(t, "get_bar_data", "115")
    /\ LET l == threads[t].local
           idx == l.filtered_indices
           feature == threads[t].args.feature
       IN  Goes(t, IF idx # <<>> /\ bar_data = None
                   THEN Ends(threads[t], Raise("TypeError"))
                   ELSE IF idx # <<>> /\ feature \notin DOMAIN bar_data
                   THEN Ends(threads[t], Raise("KeyError"))
                   ELSE [threads[t] EXCEPT
                           !.pc = "118",
                           !.local.filtered_data =
                               SetItem(l.filtered_data, feature,
                                       IF idx = <<>> THEN <<>>
                                       ELSE Pick(bar_data[feature], idx))])
    /\ Reads
    /\ ThreadFrame

\* lines 118-235: the branch of bin_size over filtered_data, or for an
\* unknown bin_size the call of get_bar_data again with "1D"
get_bar_data_118(t) ==
    /\ At(t, "get_bar_data", "118")
    /\ LET q == threads[t].args
       IN  Goes(t, IF q.bin_size \in BinSizes
                   THEN Ends(threads[t],
                             aggregate(threads[t].local.filtered_data,
                                       q.feature, q.bin_size))
                   ELSE [threads[t] EXCEPT
                           !.pc = "88", !.args.bin_size = "1D"])
    /\ Reads
    /\ ThreadFrame

----------------------------------------------------------------------------
(* The threads and the clock *)

\* the clock moves on between two statements
Elapse ==
    /\ \E s \in Instants : s > now /\ now' = s
    /\ UNCHANGED <<data, bar_data, last_load_time, bar_last_load_time,
                   test_data, bar_test_data, op, ret, loads, pre, cleared,
                   threads, writer>>

NextConcurrent ==
    \/ Elapse
    \/ \E t \in ThreadIds :
          \/ call_get_data(t)
          \/ get_data_71(t)
          \/ get_data_72(t)
          \/ get_data_73(t)
          \/ get_data_74(t)
          \/ get_data_62(t)
          \/ get_data_63(t)
          \/ get_data_79(t)
          \/ call_clear_cache(t)
          \/ clear_cache_243(t)
          \/ clear_cache_244(t)
          \/ clear_cache_245(t)
          \/ clear_cache_246(t)
          \/ call_get_bar_data(t)
          \/ get_bar_data_88(t)
          \/ get_bar_data_89(t)
          \/ get_bar_data_90(t)
          \/ get_bar_data_91(t)
          \/ get_bar_data_65(t)
          \/ get_bar_data_66(t)
          \/ get_bar_data_97(t)
          \/ get_bar_data_98(t)
          \/ get_bar_data_101(t)
          \/ get_bar_data_103(t)
          \/ get_bar_data_104(t)
          \/ get_bar_data_109(t)
          \/ get_bar_data_114(t)
          \/ get_bar_data_115(t)
          \/ get_bar_data_118(t)

SpecConcurrent == InitConcurrent /\ [][NextConcurrent]_vars

----------------------------------------------------------------------------
(* The claims.  In the state an operation leaves, op names it, pre holds    *)
(* the handler's fields as the operation found them, and now is the clock   *)
(* reading of the call.                                                     *)

\* a slot with load time llt is fresh at the current clock reading
Fresh(llt) == llt # None /\ now - llt.secs < cache_duration

\* the slot has neither snapshot nor load time
Absent(snapshot, llt) == snapshot = None /\ llt = None

LineGets == {"get_data", "get_kusto_data"}

\* C1: a slot with load time T is treated as fresh iff now - T < 600, by the
\* gets (which load iff the slot is not fresh) and by get_cache_status (whose
\* valid flags say so); at now - T = 600 it is not fresh, and a slot with no
\* load time never is.
C1_FreshnessBoundary ==
    /\ op.name \in LineGets =>
          ((loads = <<>>) <=> Fresh(pre.last_load_time))
    /\ op.name = "get_bar_data" =>
          ((loads = <<>>) <=> Fresh(pre.bar_last_load_time))
    /\ op.name = "get_cache_status" =>
          /\ ret.value.line_cache.valid = Fresh(pre.last_load_time)
          /\ ret.value.bar_cache.valid = Fresh(pre.bar_last_load_time)

\* a get exactly one TTL after the load found the slot not fresh and reloaded
C1_Witness ==
    /\ op.name = "get_data"
    /\ pre.last_load_time # None
    /\ now - pre.last_load_time.secs = cache_duration
    /\ loads # <<>>

\* C2: a get on a fresh slot serves the stored snapshot, performs no load
\* and leaves the slot's snapshot and load time as they were.
C2_CacheHit ==
    /\ (op.name = "get_data" /\ Fresh(pre.last_load_time)) =>
          /\ ret = Return(pre.data)
          /\ loads = <<>>
          /\ data = pre.data
          /\ last_load_time = pre.last_load_time
    /\ (op.name = "get_bar_data" /\ Fresh(pre.bar_last_load_time)) =>
          /\ loads = <<>>
          /\ bar_data = pre.bar_data
          /\ bar_last_load_time = pre.bar_last_load_time

\* a get_data served a snapshot loaded at an earlier clock reading
C2_Witness ==
    /\ op.name = "get_data"
    /\ Fresh(pre.last_load_time)
    /\ now > pre.last_load_time.secs
    /\ ret = Return(data)

\* C3: a get on an absent or stale slot whose load succeeds loads exactly
\* once, replaces the snapshot by the loaded dataset, sets the load time to
\* the current time and (get_data) returns the loaded dataset; the slot is
\* fresh immediately afterwards.
C3_CacheMiss ==
    /\ (op.name = "get_data" /\ ~Fresh(pre.last_load_time)
            /\ \A i \in 1 .. Len(loads) : loads[i].outcome = "ok") =>
          /\ loads = <<LoadRecord("line", "ok")>>
          /\ data = test_data
          /\ last_load_time = [secs |-> now]
          /\ ret = Return(test_data)
          /\ Fresh(last_load_time)
    /\ (op.name = "get_bar_data" /\ ~Fresh(pre.bar_last_load_time)
            /\ \A i \in 1 .. Len(loads) : loads[i].outcome = "ok") =>
          /\ loads = <<LoadRecord("bar", "ok")>>
          /\ bar_data = bar_test_data
          /\ bar_last_load_time = [secs |-> now]
          /\ Fresh(bar_last_load_time)

\* a get_data replaced a stale snapshot
C3_Witness ==
    /\ op.name = "get_data"
    /\ pre.data # None
    /\ pre.last_load_time # None
    /\ ~Fresh(pre.last_load_time)
    /\ loads # <<>>

\* C4: each slot has a snapshot iff it has a load time.
C4_SlotConsistency ==
    /\ (data = None) <=> (last_load_time = None)
    /\ (bar_data = None) <=> (bar_last_load_time = None)

\* clear_cache emptied a cache that held both slots
C4_Witness ==
    /\ op.name = "clear_cache"
    /\ pre.data # None
    /\ pre.bar_data # None
    /\ data = None

\* every load the last operation performed failed
AllLoadsFailed ==
    /\ loads # <<>>
    /\ \A i \in 1 .. Len(loads) : loads[i].outcome # "ok"

C7_Invalidation ==
    /\ op.name = "clear_cache" =>
          /\ Absent(data, last_load_time)
          /\ Absent(bar_data, bar_last_load_time)
          /\ loads = <<>>
    /\ (op.name \in LineGets /\ Absent(pre.data, pre.last_load_time)) =>
          (Len(loads) = 1 /\ loads[1].kind = "line")
    /\ (op.name = "get_bar_data" /\ Absent(pre.bar_data, pre.bar_last_load_time)) =>
          (Len(loads) >= 1 /\ \A i \in 1 .. Len(loads) : loads[i].kind = "bar")

\* clear_cache ran on a fresh line slot and a stale bar slot
C7_Witness ==
    /\ op.name = "clear_cache"
    /\ Fresh(pre.last_load_time)
    /\ pre.bar_last_load_time # None
    /\ ~Fresh(pre.bar_last_load_time)

\* the last step is the first get on the line slot since clear_cache erased
\* a load time of that slot
LineGetAfterClear ==
    op.name \in LineGets /\ pre.last_load_time = None /\ cleared.line # None

BarGetAfterClear ==
    op.name = "get_bar_data" /\ pre.bar_last_load_time = None /\ cleared.bar # None

\* C8 as claimed: the first access to a slot after clear_cache erased load
\* time T sets a load time strictly greater than T.
C8_StrictlyLater ==
    /\ LineGetAfterClear =>
          (last_load_time # None /\ last_load_time.secs > cleared.line.secs)
    /\ BarGetAfterClear =>
          (bar_last_load_time # None /\ bar_last_load_time.secs > cleared.bar.secs)

\* C8 as amended: the first access to a slot after clear_cache erased load
\* time T loads the slot and sets its load time to the clock reading of that
\* access, which is not before T.
C8_ReloadedAtAccess ==
    /\ LineGetAfterClear =>
          /\ loads # <<>>
          /\ last_load_time = [secs |-> now]
          /\ now >= cleared.line.secs
    /\ BarGetAfterClear =>
          /\ loads # <<>>
          /\ bar_last_load_time = [secs |-> now]
          /\ now >= cleared.bar.secs

\* a get reloaded a cleared line slot at a later clock reading
C8_Witness ==
    /\ LineGetAfterClear
    /\ last_load_time # None
    /\ last_load_time.secs > cleared.line.secs

\* C9: clear_cache never errors, and run on a cache that a clear_cache has
\* just emptied it leaves the cache as it found it.
C9_IdempotentClear ==
    op.name = "clear_cache" =>
        /\ ret = Return(None)
        /\ (Absent(pre.data, pre.last_load_time)
              /\ Absent(pre.bar_data, pre.bar_last_load_time)) =>
                 Handler = pre

\* clear_cache ran on a cache that an earlier clear_cache had emptied
C9_Witness ==
    /\ op.name = "clear_cache"
    /\ cleared.line # None
    /\ cleared.bar # None
    /\ Absent(pre.data, pre.last_load_time)
    /\ Absent(pre.bar_data, pre.bar_last_load_time)
    /\ Handler = pre

\* C10: get_cache_status changes no slot and performs no load, also on a
\* stale or absent slot; only the gets perform loads.
C10_StatusPureRead ==
    /\ op.name = "get_cache_status" => (Handler = pre /\ loads = <<>>)
    /\ loads # <<>> => op.name \in {"get_data", "get_bar_data", "get_kusto_data"}

\* get_cache_status ran on a stale line slot and an absent bar slot
C10_Witness ==
    /\ op.name = "get_cache_status"
    /\ pre.last_load_time # None
    /\ ~Fresh(pre.last_load_time)
    /\ pre.bar_last_load_time = None
    /\ ret.value.line_cache.valid = FALSE

----------------------------------------------------------------------------
(* The claims about get_bar_data.  In the state a call leaves, op.args is   *)
(* the request and bar_data is the snapshot the call worked on: the one it  *)
(* found fresh, or the one it loaded.                                       *)

BarCall == op.name = "get_bar_data"

Returned == ret.outcome = "return"

\* the rows of the snapshot, by index
Rows == 1 .. Len(bar_data["timestamp"])

\* date string d is given and is a date
IsDate(d) == d # None /\ \E p \in IsoStrings : p.text = d.text

\* the date that date string d names
DateOf(d) == (CHOOSE p \in IsoStrings : p.text = d.text).dt

\* the first and the last whole second of the calendar day of datetime t
DayStart(t) == [t EXCEPT !.hour = 0, !.minute = 0, !.second = 0, !.microsecond = 0]

DayLastSecond(t) ==
    [t EXCEPT !.hour = 23, !.minute = 59, !.second = 59, !.microsecond = 0]

SameDay(a, b) == a.year = b.year /\ a.month = b.month /\ a.day = b.day

\* the bin size a request is served under
ServedBin(b) == IF b \in BinSizes THEN b ELSE "1D"

\* the bucket and the value of row i under the request's feature and bin size
RowKey(i) == bucket_key(bar_data["timestamp"][i], ServedBin(op.args.bin_size))

RowValue(i) == bar_data[op.args.feature][i]

\* the sum of the counts of the records from j on that satisfy Keep
RECURSIVE SumCounts(_, _, _)
SumCounts(result, Keep(_), j) ==
    IF j > Len(result) THEN 0
    ELSE (IF Keep(result[j]) THEN result[j].count ELSE 0)
         + SumCounts(result, Keep, j + 1)

\* the sum of the counts of the records of bucket k and value v
PairCount(result, k, v) ==
    LET Keep(r) == r.date = k /\ r.value = v
    IN  SumCounts(result, Keep, 1)

\* the sum of the counts of the records of bucket k
KeyCount(result, k) ==
    LET Keep(r) == r.date = k
    IN  SumCounts(result, Keep, 1)

\* result counts the rows of I, each once under its bucket and value, and
\* nothing else
CountsExactly(result, I) ==
    /\ \A j \in 1 .. Len(result) :
          \E i \in I : RowKey(i) = result[j].date /\ RowValue(i) = result[j].value
    /\ \A i \in I :
          PairCount(result, RowKey(i), RowValue(i)) =
             Cardinality({ i2 \in I : RowKey(i2) = RowKey(i)
                                       /\ RowValue(i2) = RowValue(i) })

\* both dates of the request are given and are dates
Windowed == IsDate(op.args.start_date) /\ IsDate(op.args.end_date)

\* the rows from the first instant of the start date to the last whole
\* second of the end date
InWindow ==
    { i \in Rows :
        /\ dt_le(DayStart(DateOf(op.args.start_date)), bar_data["timestamp"][i])
        /\ dt_le(bar_data["timestamp"][i], DayLastSecond(DateOf(op.args.end_date))) }

\* C11: with both dates given, the result of get_bar_data counts exactly the
\* rows whose timestamp t has (start date at 00:00:00) <= t <= (end date at
\* 23:59:59): a row at either end of that window is counted and a row of the
\* day after the end date is not.
C11_FilterInclusive ==
    (BarCall /\ Windowed /\ Returned) => CountsExactly(ret.value, InWindow)

\* a row at 00:00:00 of the start date and a row at 23:59:59 of the end date
\* were both counted
C11_Witness ==
    /\ BarCall /\ Windowed /\ Returned
    /\ op.args.start_date = Str("2024-01-01")
    /\ op.args.end_date = Str("2024-01-03")
    /\ bar_data["timestamp"] =
          <<Dt(2024, 1, 1, 0, 0, 0, 0), Dt(2024, 1, 3, 23, 59, 59, 0)>>
    /\ KeyCount(ret.value, RowKey(1)) + KeyCount(ret.value, RowKey(2)) = 2
    /\ RowKey(1) # RowKey(2)

\* the rows of the end date's calendar day that are not before the start
OnEndDay ==
    { i \in Rows :
        /\ SameDay(bar_data["timestamp"][i], DateOf(op.args.end_date))
        /\ dt_le(DayStart(DateOf(op.args.start_date)), bar_data["timestamp"][i]) }

\* C12: with both dates given, the end date with or without a time of day,
\* every row whose timestamp falls on the end date's calendar day, up to
\* that day's final instant and also after 23:59:59, and is not before the
\* start is counted in the result.
C12_EndOfDayExtension ==
    (BarCall /\ Windowed /\ op.args.feature \in DOMAIN bar_data) =>
        /\ Returned
        /\ \A i \in OnEndDay :
              PairCount(ret.value, RowKey(i), RowValue(i)) >=
                 Cardinality({ i2 \in OnEndDay : RowKey(i2) = RowKey(i)
                                                  /\ RowValue(i2) = RowValue(i) })

\* C13: when start_date or end_date is absent, get_bar_data on a feature of
\* the dataset returns and its result counts every row of the snapshot, as
\* the aggregation of the unfiltered snapshot does.
C13_AbsentBoundNoFilter ==
    (BarCall /\ (op.args.start_date = None \/ op.args.end_date = None)
             /\ op.args.feature \in DOMAIN bar_data) =>
        /\ Returned
        /\ CountsExactly(ret.value, Rows)

\* with a start date and no end date, a row before the start date and a row
\* after it were both counted
C13_Witness ==
    /\ BarCall /\ Returned
    /\ op.args.start_date = Str("2024-01-01")
    /\ op.args.end_date = None
    /\ bar_data["timestamp"] =
          <<Dt(2023, 12, 31, 12, 0, 0, 0), Dt(2024, 1, 4, 0, 0, 0, 0)>>
    /\ KeyCount(ret.value, RowKey(1)) = 1
    /\ KeyCount(ret.value, RowKey(2)) = 1

\* date string d is given and is not a date
Malformed(d) == d # None /\ ~IsDate(d)

\* C14: a get_bar_data call whose start_date or end_date is given and is not
\* a valid date ends in an error, also when only one of the two is given; it
\* returns no aggregation, empty or unfiltered.
C14_MalformedRejected ==
    (BarCall /\ (Malformed(op.args.start_date) \/ Malformed(op.args.end_date))) =>
        ret.outcome = "raise"

\* C15: a get_bar_data call with a feature that is not a column of the
\* dataset ends in an error under every bin size and date window, also a
\* window that matches no row; it returns no result sequence.
C15_UnknownFeatureFails ==
    (BarCall /\ op.args.feature \notin DOMAIN bar_data) => ret.outcome = "raise"

\* the rows the date filter lets through: those in the window when both
\* dates are given, all of them otherwise
PostFilter ==
    IF op.args.start_date # None /\ op.args.end_date # None THEN InWindow ELSE Rows

\* C16: for every bucket key, the counts of the emitted records of that key
\* add up to the number of post-filter rows whose timestamp maps to it, so
\* that all counts add up to the number of post-filter rows.
C16_BucketCompleteness ==
    (BarCall /\ Returned) =>
        LET All(r) == TRUE IN
        /\ \A i \in PostFilter :
              KeyCount(ret.value, RowKey(i)) =
                 Cardinality({ i2 \in PostFilter : RowKey(i2) = RowKey(i) })
        /\ \A j \in 1 .. Len(ret.value) :
              \E i \in PostFilter : RowKey(i) = ret.value[j].date
        /\ SumCounts(ret.value, All, 1) = Cardinality(PostFilter)

\* two rows of one month with different values made two records of that
\* month, whose counts add up to 2
C16_Witness ==
    /\ BarCall /\ Returned
    /\ op.args.bin_size = "1M"
    /\ Len(ret.value) = 2
    /\ ret.value[1].date = ret.value[2].date
    /\ ret.value[1].value # ret.value[2].value
    /\ KeyCount(ret.value, ret.value[1].date) = 2

\* C17: the result holds exactly one record per (bucket, value) pair that
\* occurs in the post-filter rows: no pair twice, no pair that does not
\* occur, and each count is at least 1 and is the number of rows of that
\* bucket and value.
C17_ResultShape ==
    (BarCall /\ Returned) =>
        /\ \A j1, j2 \in 1 .. Len(ret.value) :
              (ret.value[j1].date = ret.value[j2].date
                 /\ ret.value[j1].value = ret.value[j2].value) => j1 = j2
        /\ \A j \in 1 .. Len(ret.value) :
              /\ ret.value[j].count >= 1
              /\ ret.value[j].count =
                    Cardinality({ i \in PostFilter :
                                    /\ RowKey(i) = ret.value[j].date
                                    /\ RowValue(i) = ret.value[j].value })
        /\ \A i \in PostFilter :
              \E j \in 1 .. Len(ret.value) :
                  /\ ret.value[j].date = RowKey(i)
                  /\ ret.value[j].value = RowValue(i)

\* two rows of different days of one week with the same value made one
\* record of count 2
C17_Witness ==
    /\ BarCall /\ Returned
    /\ op.args.bin_size = "1W"
    /\ Len(bar_data["timestamp"]) = 2
    /\ ~SameDay(bar_data["timestamp"][1], bar_data["timestamp"][2])
    /\ Len(ret.value) = 1
    /\ ret.value[1].count = 2

\* the same call with bin size 1D, on the handler as the call found it
AsDaily ==
    get_bar_data_run(pre, op.args.feature, op.args.start_date, op.args.end_date,
                     "1D", <<"ok">>)

\* C20: get_bar_data with a bin size outside 1H, 1D, 1W, 1M, 3M ends as the
\* same call with bin size 1D ends on the same cache, feature and dates: the
\* same result or the same error, the same slot afterwards, and at most one
\* load.  What it returns is keyed by calendar day.
C20_UnknownBinIsDaily ==
    (BarCall /\ op.args.bin_size \notin BinSizes) =>
        /\ ret = AsDaily.ret
        /\ Handler = AsDaily.self
        /\ loads = AsDaily.loads
        /\ Len(loads) <= 1
        /\ Returned =>
              \A j \in 1 .. Len(ret.value) :
                  \E i \in PostFilter :
                      LET t == bar_data["timestamp"][i]
                      IN  ret.value[j].date =
                             [fmt |-> "%Y-%m-%d", year |-> t.year,
                              month |-> t.month, day |-> t.day]

\* a call with bin size 2D loaded the slot once and returned two rows of one
\* day under that day
C20_Witness ==
    /\ BarCall /\ op.args.bin_size = "2D" /\ Returned
    /\ Len(loads) = 1
    /\ Len(bar_data["timestamp"]) = 2
    /\ bar_data["timestamp"][1] # bar_data["timestamp"][2]
    /\ Len(ret.value) = 1
    /\ ret.value[1].count = 2
    /\ ret.value[1].date.fmt = "%Y-%m-%d"

----------------------------------------------------------------------------
(* The claims about the bucket keys: the dataset is one row, at noon of any *)
(* day of the calendar, aggregated whole.                                   *)

\* the timestamp of the one row, and the key of the one record
TheRow == bar_data["timestamp"][1]

TheKey == ret.value[1].date

\* 1900-01-01 was a Monday
IsMonday(d) == (toordinal(d) - toordinal(Dt(1900, 1, 1, 0, 0, 0, 0))) % 7 = 0

\* C18: the 1W bucket key of timestamp t is the date, as YYYY-MM-DD, of the
\* Monday on or before t's calendar date: a valid date that is a Monday, not
\* after t's date and at most 6 days before it, across month and year
\* boundaries too; Friday 2024-03-15 has key 2024-03-11.
C18_WeekBucket ==
    (BarCall /\ op.args.bin_size = "1W") =>
        /\ Returned
        /\ Len(ret.value) = 1
        /\ DOMAIN TheKey = {"fmt", "year", "month", "day"}
        /\ TheKey.fmt = "%Y-%m-%d"
        /\ TheKey.month \in 1 .. 12
        /\ TheKey.day \in 1 .. days_in_month(TheKey.year, TheKey.month)
        /\ IsMonday(TheKey)
        /\ toordinal(TheKey) <= toordinal(TheRow)
        /\ toordinal(TheRow) - toordinal(TheKey) <= 6
        /\ (TheRow.year = 2024 /\ TheRow.month = 3 /\ TheRow.day = 15) =>
              (TheKey.year = 2024 /\ TheKey.month = 3 /\ TheKey.day = 11)

\* a Sunday whose Monday lies in the month, or the year, before
C18_Witness ==
    /\ BarCall /\ op.args.bin_size = "1W" /\ Returned
    /\ TheRow.month = 1
    /\ TheRow.day = 1
    /\ TheKey.year = TheRow.year - 1
    /\ TheKey.month = 12
    /\ TheKey.day = 26

\* C19: the 3M bucket key of timestamp t is t's year with -Q and the number
\* ((month-1) div 3)+1, which is in 1..4: months 1-3 give Q1, 4-6 Q2, 7-9 Q3
\* and 10-12 Q4; 2024-08-20 has key 2024-Q3.
C19_QuarterBucket ==
    (BarCall /\ op.args.bin_size = "3M") =>
        /\ Returned
        /\ Len(ret.value) = 1
        /\ DOMAIN TheKey = {"fmt", "year", "quarter"}
        /\ TheKey.fmt = "{year}-Q{quarter}"
        /\ TheKey.year = TheRow.year
        /\ TheKey.quarter \in 1 .. 4
        /\ TheRow.month \in 3 * TheKey.quarter - 2 .. 3 * TheKey.quarter
        /\ TheKey.quarter =
              (CASE TheRow.month \in 1 .. 3 -> 1
                 [] TheRow.month \in 4 .. 6 -> 2
                 [] TheRow.month \in 7 .. 9 -> 3
                 [] TheRow.month \in 10 .. 12 -> 4)

\* 2024-08-20 was put under 2024-Q3
C19_Witness ==
    /\ BarCall /\ op.args.bin_size = "3M" /\ Returned
    /\ TheRow.year = 2024 /\ TheRow.month = 8 /\ TheRow.day = 20
    /\ TheKey.year = 2024
    /\ TheKey.quarter = 3

----------------------------------------------------------------------------
(* Further claims about get_bar_data over any dataset *)

\* the request's window is defined: a date is absent, or both are dates
WindowDefined ==
    op.args.start_date = None \/ op.args.end_date = None \/ Windowed

\* C21: when no row is left after the filter (the snapshot is empty, or the
\* window matches no row) and the feature is a column, get_bar_data returns
\* the empty sequence under every bin size and raises nothing.
C21_EmptyInEmptyOut ==
    (BarCall /\ op.args.feature \in DOMAIN bar_data /\ WindowDefined
             /\ PostFilter = {}) =>
        ret = Return(<<>>)

\* a window that matches none of the rows of a snapshot that has rows gave
\* the empty sequence under quarterly bins
C21_Witness ==
    /\ BarCall /\ Windowed
    /\ op.args.feature = "status"
    /\ op.args.bin_size = "3M"
    /\ Rows # {}
    /\ PostFilter = {}
    /\ ret = Return(<<>>)

\* C22: get_bar_data leaves the stored bar snapshot as it found it unless it
\* reloaded it, and a reloaded snapshot is the whole dataset of the source:
\* whatever the window, the feature and the bin size, the slot keeps all
\* columns and all rows.
C22_FilterKeepsSnapshot ==
    BarCall =>
        /\ loads = <<>> => bar_data = pre.bar_data
        /\ loads # <<>> => bar_data = bar_test_data
        /\ bar_data # None => bar_data = bar_test_data

\* a call on a fresh slot counted one of the two rows of the snapshot, and
\* the snapshot still has both
C22_Witness ==
    /\ BarCall /\ Windowed /\ Returned
    /\ loads = <<>>
    /\ Len(bar_data["timestamp"]) = 2
    /\ Cardinality(PostFilter) = 1
    /\ Len(ret.value) = 1
    /\ bar_data = pre.bar_data

\* what lines 88-115 made of the request on the handler as the call found it
Filtered ==
    bar_prepare(pre, op.args.feature, op.args.start_date, op.args.end_date, "ok")

\* C25: when the date window is applied, the filtered timestamp column and
\* the filtered feature column have the same length, their k-th entries are
\* the timestamp and the value of one row of the snapshot, and the rows kept
\* come in the order they have in the snapshot.
C25_FilterAlignment ==
    (BarCall /\ Windowed /\ Filtered.exc = "None") =>
        LET T == Filtered.filtered_data["timestamp"]
            V == Filtered.filtered_data[op.args.feature]
        IN  /\ Len(T) = Len(V)
            /\ \E idx \in [1 .. Len(T) -> Rows] :
                  /\ \A k \in 1 .. Len(T) - 1 : idx[k] < idx[k + 1]
                  /\ { idx[k] : k \in 1 .. Len(T) } = InWindow
                  /\ \A k \in 1 .. Len(T) :
                        /\ T[k] = bar_data["timestamp"][idx[k]]
                        /\ V[k] = RowValue(idx[k])

\* two rows that differ in timestamp and in value were both kept, in their
\* order
C25_Witness ==
    /\ BarCall /\ Windowed /\ Filtered.exc = "None"
    /\ op.args.feature = "status"
    /\ Len(bar_data["timestamp"]) = 2
    /\ bar_data["timestamp"][1] # bar_data["timestamp"][2]
    /\ bar_data["status"][1] # bar_data["status"][2]
    /\ Filtered.filtered_data["timestamp"] = bar_data["timestamp"]
    /\ Filtered.filtered_data["status"] = bar_data["status"]

\* the least member of a non-empty set of integers
Min(S) == CHOOSE x \in S : \A y \in S : x <= y

\* the first post-filter row of bucket k, and of bucket k and value v
FirstOfKey(k) == Min({ i \in PostFilter : RowKey(i) = k })

FirstOfPair(k, v) == Min({ i \in PostFilter : RowKey(i) = k /\ RowValue(i) = v })

\* C26: the result lists the buckets in the order in which their keys first
\* occur in the post-filter rows, the records of one bucket next to one
\* another, and within a bucket the values in the order in which they first
\* occur in that bucket.
C26_DiscoveryOrder ==
    (BarCall /\ Returned) =>
        \A j1, j2 \in 1 .. Len(ret.value) :
            j1 < j2 =>
                LET r1 == ret.value[j1]
                    r2 == ret.value[j2]
                IN  IF r1.date = r2.date
                    THEN /\ FirstOfPair(r1.date, r1.value) < FirstOfPair(r2.date, r2.value)
                         /\ \A j \in j1 .. j2 : ret.value[j].date = r1.date
                    ELSE FirstOfKey(r1.date) < FirstOfKey(r2.date)

\* rows of buckets k1, k2, k1 with two values in k1 gave the two records of
\* k1 first and the record of k2 after them
C26_Witness ==
    /\ BarCall /\ Returned
    /\ Len(bar_data["timestamp"]) = 3
    /\ RowKey(1) = RowKey(3)
    /\ RowKey(1) # RowKey(2)
    /\ RowValue(1) # RowValue(3)
    /\ Len(ret.value) = 3
    /\ ret.value[1].date = RowKey(1) /\ ret.value[1].value = RowValue(1)
    /\ ret.value[2].date = RowKey(1) /\ ret.value[2].value = RowValue(3)
    /\ ret.value[3].date = RowKey(2)

----------------------------------------------------------------------------
(* Further claims about the cache *)

\* the two fields of each slot
LineSlot(h) == <<h.data, h.last_load_time>>

BarSlot(h) == <<h.bar_data, h.bar_last_load_time>>

\* C27: the passage of time changes no slot, and neither does an operation
\* that is not a get on the slot or a clear: a slot that went stale keeps
\* its snapshot and load time.  A get that finds its slot stale or absent
\* loads it before it returns: the slot is fresh when the get has returned.
C27_LazyRefresh ==
    /\ op.name = "tick" => Handler = pre
    /\ op.name \notin (LineGets \cup {"clear_cache"}) => LineSlot(Handler) = LineSlot(pre)
    /\ op.name \notin {"get_bar_data", "clear_cache"} => BarSlot(Handler) = BarSlot(pre)
    /\ (op.name \in LineGets /\ ~Fresh(pre.last_load_time)) =>
          /\ loads # <<>>
          /\ data # None
          /\ Fresh(last_load_time)
    /\ (op.name = "get_bar_data" /\ ~Fresh(pre.bar_last_load_time)) =>
          /\ loads # <<>>
          /\ bar_data # None
          /\ Fresh(bar_last_load_time)

\* the clock moved on past the TTL of both slots, which kept what they held
C27_Witness ==
    /\ op.name = "tick"
    /\ pre.last_load_time # None /\ pre.bar_last_load_time # None
    /\ ~Fresh(last_load_time) /\ ~Fresh(bar_last_load_time)
    /\ data # None /\ bar_data # None
    /\ Handler = pre

\* C28: a get on the line slot leaves the bar slot's snapshot and load time,
\* hence its freshness, as they were, and a get on the bar slot leaves the
\* line slot's; each slot can so be fresh, stale or absent whatever the
\* other is.
C28_SlotIndependence ==
    /\ op.name \in LineGets =>
          /\ BarSlot(Handler) = BarSlot(pre)
          /\ \A i \in 1 .. Len(loads) : loads[i].kind = "line"
    /\ op.name = "get_bar_data" =>
          /\ LineSlot(Handler) = LineSlot(pre)
          /\ \A i \in 1 .. Len(loads) : loads[i].kind = "bar"

\* get_data reloaded a stale line slot beside a bar slot that was absent
\* after having been loaded and cleared
C28_Witness ==
    /\ op.name = "get_data"
    /\ pre.last_load_time # None /\ ~Fresh(pre.last_load_time)
    /\ Fresh(last_load_time)
    /\ Absent(bar_data, bar_last_load_time)
    /\ cleared.bar # None

\* every timestamp of dataset d is a datetime
Temporal(d) ==
    \A k \in 1 .. Len(d["timestamp"]) : has_isoformat(d["timestamp"][k])

\* C29: whatever line-data requests and clears have run, the dataset in the
\* line slot and the dataset the data source supplies at the next refresh
\* hold datetime timestamps, as they were produced.
C29_ServingKeepsSnapshot ==
    /\ data # None => Temporal(data)
    /\ Temporal(test_data)
    /\ test_data = LineDataset

----------------------------------------------------------------------------
(* Claims about calls that overlap *)

\* thread t has ended a call of method
Ended(t, method) == threads[t].method = method /\ threads[t].pc = "done"

Gets == {"get_data", "get_bar_data"}

\* the load time and the snapshot of the slot method serves, and the calls
\* that assigned them last
SlotLoadTime(method) ==
    IF method = "get_data" THEN last_load_time ELSE bar_last_load_time

SlotSnapshot(method) == IF method = "get_data" THEN data ELSE bar_data

SlotWriter(method) ==
    IF method = "get_data" THEN writer.last_load_time
    ELSE writer.bar_last_load_time

SnapshotWriter(method) ==
    IF method = "get_data" THEN writer.data ELSE writer.bar_data

\* the refresh of thread a or of thread b made assignment w
WriteOf(w, a, b) == w.kind = "_update_cache" /\ w.by \in {a, b}

\* threads a and b ended two gets on one slot that both found it stale or
\* absent before either had stored a snapshot, with no clear_cache at work
\* meanwhile
BothRefreshed(a, b) ==
    /\ a # b
    /\ threads[a].method \in Gets
    /\ Ended(a, threads[a].method)
    /\ Ended(b, threads[a].method)
    /\ threads[a].missed /\ threads[b].missed
    /\ threads[a].early /\ threads[b].early
    /\ ~threads[a].overlapped /\ ~threads[b].overlapped

\* C23: when two gets on one slot both find it stale or absent before either
\* has written, both load and both write, both return a dataset (get_data
\* the data source's, get_bar_data a result computed from it), and as long
\* as no later call has written the slot, it holds the data source's dataset
\* and the load time of whichever of the two assigned the load time last,
\* which is no earlier than the other's.
C23_LastWriterWins ==
    \A a, b \in ThreadIds :
        BothRefreshed(a, b) =>
            LET method == threads[a].method
                w == SlotWriter(method)
            IN  /\ threads[a].loads >= 1 /\ threads[b].loads >= 1
                /\ threads[a].stamp # None /\ threads[b].stamp # None
                /\ \A t \in {a, b} :
                      /\ threads[t].ret.outcome = "return"
                      /\ method = "get_data" => threads[t].ret.value = test_data
                /\ WriteOf(w, a, b) /\ WriteOf(SnapshotWriter(method), a, b) =>
                      /\ SlotLoadTime(method) = threads[w.by].stamp
                      /\ SlotSnapshot(method) =
                            DataSource(IF method = "get_data" THEN "line"
                                       ELSE "bar")
                      /\ \A t \in {a, b} :
                            threads[t].stamp.secs <= threads[w.by].stamp.secs

\* two get_data calls both found the line slot stale, both loaded, and the
\* one that stamped second stamped a later time, which the slot holds
C23_Witness ==
    \E a, b \in ThreadIds :
        /\ BothRefreshed(a, b)
        /\ threads[a].method = "get_data"
        /\ writer.data = Write("_update_cache", a)
        /\ writer.last_load_time = Write("_update_cache", b)
        /\ threads[a].stamp.secs = cache_duration
        /\ threads[b].stamp.secs > cache_duration
        /\ last_load_time = threads[b].stamp

\* C24: a reader that finds a slot's load time present reads with it the
\* snapshot that the same write stored: the two never come from different
\* writes, whatever get, refresh and clear_cache statements interleave.
C24_NoTornSlot ==
    \A t \in ThreadIds :
        threads[t].seen # None /\ threads[t].seen.data # None =>
            threads[t].seen.data = threads[t].seen.last_load_time

\* what get_bar_data returns for request q on a loaded bar slot
Expected(q) ==
    get_bar_data_run([data |-> data, bar_data |-> bar_test_data,
                      last_load_time |-> last_load_time,
                      bar_last_load_time |-> datetime_now],
                     q.feature, q.start_date, q.end_date, q.bin_size,
                     <<"ok", "ok">>).ret

\* C30: whatever statements of a concurrent clear_cache interleave with it,
\* get_data returns the data source's dataset and get_bar_data returns the
\* result computed from the data source's dataset with the requested window
\* applied: never None, never an error on an absent snapshot, never the
\* unfiltered result.
C30_GetYieldsDataset ==
    \A t \in ThreadIds :
        /\ Ended(t, "get_data") => threads[t].ret = Return(test_data)
        /\ Ended(t, "get_bar_data") =>
              threads[t].ret = Expected(threads[t].args)

=============================================================================
